---------------------------- MODULE Spec2Model ----------------------------
(***************************************************************************)
(* Rolling Update Risk Estimator: the simulation engine (risk_engine.py),  *)
(* the in-memory history ledger (storage.py) and the coordinating helper   *)
(* _execute_simulation (main.py).                                          *)
(*                                                                         *)
(* Numbers.  Every Python float of the engine is an integer count of       *)
(* 1/Unit of a percentage point, Unit = 60000, so that the values the      *)
(* engine forms (three-decimal draws, the 0.85 dampening, thirds and       *)
(* halves from the centrality ratios) are exact.  One hundredth is         *)
(* Hundredth = 600 units; round(x, 2) is round-half-even to a multiple of  *)
(* it.                                                                     *)
(***************************************************************************)
EXTENDS Integers, Sequences, FiniteSets, TLC

VARIABLES
    settings,        \* Settings: service_names, dependency_candidates, history_limit
    history,         \* SimulationStorage._history
    latest_result,   \* SimulationStorage._latest_result
    now,             \* the UTC clock read by datetime.now
    obsA, obsB,      \* the two most recent calls (runs and clears), as observed
    recorded,        \* entries passed to record() since creation or the last clear()
    gpc, graph, gi, isolated_nodes,   \* _generate_dependency_graph, step by step
    metrics_in, built,                \* _build_service_metrics: argument and result
    heap, hist_ref, tpc, treg,        \* record() run by two threads
    snap,            \* the value the last snapshot() or history read returned
    response         \* the response to the last request, while the ledger is as it was

varsStorage == <<settings, history, latest_result, now, obsA, obsB, recorded>>
varsGraph   == <<gpc, graph, gi, isolated_nodes>>
varsScore   == <<metrics_in, built>>
varsThreads == <<heap, hist_ref, tpc, treg>>
varsCaller  == <<snap, response>>
vars == <<settings, history, latest_result, now, obsA, obsB, recorded,
          gpc, graph, gi, isolated_nodes, metrics_in, built,
          heap, hist_ref, tpc, treg, snap, response>>

\* Python's None where a result or a record may stand, and where a seed may.
None == [none |-> TRUE]
NoSeed == 0 - 1

-----------------------------------------------------------------------------
(* Bounds of the model *)

MaxSeed == 0
MaxClock == 4
MaxRecords == 5
MaxHistoryLimit == 3
MaxEntry == 2
MaxObjects == 4
MaxRequests == 2

-----------------------------------------------------------------------------
(* Arithmetic *)

Unit == 600 * 100
Hundredth == Unit \div 100
Pct(n) == n * Unit

Min(a, b) == IF a < b THEN a ELSE b
Max(a, b) == IF a > b THEN a ELSE b

\* The integer nearest to num/den, ties to the even one (Python's round), num >= 0.
RoundHalfEven(num, den) ==
    LET q == num \div den
        r == num % den
    IN  IF 2 * r < den THEN q
        ELSE IF 2 * r > den THEN q + 1
        ELSE IF q % 2 = 0 THEN q ELSE q + 1

\* round(x, 2) of a value held in units.
Round2(x) == Hundredth * RoundHalfEven(x, Hundredth)

RECURSIVE SumSeq(_)
SumSeq(s) == IF s = <<>> THEN 0 ELSE Head(s) + SumSeq(Tail(s))

RECURSIVE SumOver(_, _)
SumOver(S, f) ==
    IF S = {} THEN 0
    ELSE LET x == CHOOSE y \in S : TRUE IN f[x] + SumOver(S \ {x}, f)

Range(s) == {s[i] : i \in DOMAIN s}

\* s[-n:] for n >= 1.
LastN(s, n) == IF Len(s) <= n THEN s ELSE SubSeq(s, Len(s) - n + 1, Len(s))

-----------------------------------------------------------------------------
(* config.py *)

\* Every name that can occur, in ascending (string) order.
NameOrder ==
    <<"auth-service", "billing-service", "legacy-service", "orders-service",
      "payment-service">>
NameRank(name) == CHOOSE i \in DOMAIN NameOrder : NameOrder[i] = name

\* Settings values.  The first follows the default table restricted to three
\* services; the second names a candidate that is not a configured service;
\* the third gives one of four services four candidates (itself among them);
\* the fourth configures a single service.
Configs == <<
    [service_names |-> <<"auth-service", "payment-service", "orders-service">>,
     dependency_candidates |->
        [s \in {"auth-service", "payment-service", "orders-service"} |->
            CASE s = "auth-service" -> <<"orders-service", "payment-service">>
              [] s = "payment-service" -> <<"orders-service">>
              [] s = "orders-service" -> <<"payment-service">>],
     history_limit |-> 2],
    [service_names |-> <<"auth-service", "orders-service">>,
     dependency_candidates |->
        [s \in {"auth-service"} |-> <<"orders-service", "legacy-service">>],
     history_limit |-> 1],
    [service_names |->
        <<"auth-service", "payment-service", "orders-service", "billing-service">>,
     dependency_candidates |->
        [s \in {"orders-service"} |->
            <<"auth-service", "payment-service", "orders-service", "billing-service">>],
     history_limit |-> 3],
    [service_names |-> <<"auth-service">>,
     dependency_candidates |-> [s \in {} |-> <<>>],
     history_limit |-> 1]
>>

Candidates(cfg, service) ==
    IF service \in DOMAIN cfg.dependency_candidates
    THEN cfg.dependency_candidates[service] ELSE <<>>

-----------------------------------------------------------------------------
(* The random source.  np.random.default_rng(seed) is a stream fixed by its  *)
(* seed; the stream is a linear congruential one here, and every draw takes  *)
(* one step of it.                                                            *)

DefaultRng(seed) == (seed * 613 + 42) % 65537
\* The stream after one draw.
RngNext(rng) == (rng * 75 + 74) % 65537
\* The draw below n that the stream in state rng gives.
RngBelow(rng, n) == (rng \div 8) % n

\* The values rng.uniform(0, 100) is taken to return, in thousandths of a point.
UniformValues == <<1234, 24995, 39990, 58337, 77125, 91666, 99985>>
\* Draws ten times as wide, from [0, 1000); SignalsWithinRange must tell them
\* from the code's.
UniformOfWide(k) == UniformValues[k] * (Unit \div 100)
UniformOf(k) == UniformValues[k] * (Unit \div 1000)

\* float(rng.uniform(0, 100)) of the stream in state rng.
Uniform(rng) == UniformOf(1 + RngBelow(rng, Len(UniformValues)))

\* int(rng.integers(0, high)) of the stream in state rng: 0 .. high-1
Integers0(rng, high) == RngBelow(rng, high)

RemoveAt(s, i) == SubSeq(s, 1, i - 1) \o SubSeq(s, i + 1, Len(s))

\* rng.choice(candidates, size=size, replace=False): an ordered sample, one
\* draw for each element.
RECURSIVE Choice(_, _, _)
Choice(rng, candidates, size) ==
    IF size = 0 THEN <<>>
    ELSE <<candidates[1 + RngBelow(rng, Len(candidates))]>>
         \o Choice(RngNext(rng),
                   RemoveAt(candidates, 1 + RngBelow(rng, Len(candidates))), size - 1)

\* The stream after n draws.
RECURSIVE RngAfter(_, _)
RngAfter(rng, n) == IF n = 0 THEN rng ELSE RngAfter(RngNext(rng), n - 1)

\* Every value rng.choice(candidates, size=size, replace=False) can return.
RECURSIVE OrderedSamples(_, _)
OrderedSamples(candidates, size) ==
    IF size = 0 THEN {<<>>}
    ELSE UNION {{<<candidates[i]>> \o rest :
                    rest \in OrderedSamples(RemoveAt(candidates, i), size - 1)} :
                i \in DOMAIN candidates}

-----------------------------------------------------------------------------
(* networkx.DiGraph: nodes and edges in insertion order *)

EmptyGraph == [nodes |-> <<>>, edges |-> <<>>]

AddNode(g, n) ==
    IF n \in Range(g.nodes) THEN g ELSE [g EXCEPT !.nodes = Append(@, n)]

\* graph.add_nodes_from(names)
RECURSIVE AddNodesFrom(_, _)
AddNodesFrom(g, names) ==
    IF names = <<>> THEN g ELSE AddNodesFrom(AddNode(g, Head(names)), Tail(names))

\* graph.add_edge(u, v): both endpoints become nodes.
AddEdge(g, u, v) ==
    LET g2 == AddNode(AddNode(g, u), v)
    IN  IF <<u, v>> \in Range(g2.edges) THEN g2
        ELSE [g2 EXCEPT !.edges = Append(@, <<u, v>>)]

\* graph.edges(): by source in node order, then in insertion order.
RECURSIVE EdgesFrom(_, _)
EdgesFrom(g, sources) ==
    IF sources = <<>> THEN <<>>
    ELSE LET u == Head(sources)
             FromU(e) == e[1] = u
         IN  SelectSeq(g.edges, FromU) \o EdgesFrom(g, Tail(sources))

GraphEdges(g) == EdgesFrom(g, g.nodes)

InDegree(g, n) == Cardinality({e \in Range(g.edges) : e[2] = n})
OutDegree(g, n) == Cardinality({e \in Range(g.edges) : e[1] = n})
Degree(g, n) == InDegree(g, n) + OutDegree(g, n)

\* Only the first node without an edge; NoIsolatedNode must tell this from
\* nx.isolates.
IsolatesFirstOnly(g) ==
    LET NoEdge(n) == Degree(g, n) = 0
    IN  IF SelectSeq(g.nodes, NoEdge) = <<>> THEN <<>>
        ELSE <<Head(SelectSeq(g.nodes, NoEdge))>>

\* list(nx.isolates(graph))
Isolates(g) ==
    LET NoEdge(n) == Degree(g, n) = 0
    IN  SelectSeq(g.nodes, NoEdge)

-----------------------------------------------------------------------------
(* RiskEngine._generate_dependency_graph *)

MaxEdges(candidates) == Max(1, Len(candidates) \div 2)

\* for dependency in chosen: if dependency != service: graph.add_edge(dependency, service)
RECURSIVE AddChosen(_, _, _)
AddChosen(g, service, chosen) ==
    IF chosen = <<>> THEN g
    ELSE AddChosen(IF Head(chosen) # service THEN AddEdge(g, Head(chosen), service) ELSE g,
                   service, Tail(chosen))

\* [n for n in service_names if n != node]
Others(cfg, node) ==
    LET NotNode(n) == n # node
    IN  SelectSeq(cfg.service_names, NotNode)

\* One pass of the loop over service_names: the edges of `service`, the
\* edge count drawn being edge_count.
CandidateStep(g, rng, service, candidates, edge_count) ==
    AddChosen(g, service,
              IF edge_count # 0 THEN Choice(RngNext(rng), candidates, edge_count)
              ELSE <<>>)

\* The loop over service_names, from position i on: the graph and the stream.
RECURSIVE CandidateLoop(_, _, _, _)
CandidateLoop(cfg, g, rng, i) ==
    IF i > Len(cfg.service_names) THEN [graph |-> g, rng |-> rng]
    ELSE IF Candidates(cfg, cfg.service_names[i]) = <<>>
         THEN CandidateLoop(cfg, g, rng, i + 1)
         ELSE LET candidates == Candidates(cfg, cfg.service_names[i])
                  edge_count == Integers0(rng, MaxEdges(candidates) + 1)
              IN  CandidateLoop(cfg,
                      CandidateStep(g, rng, cfg.service_names[i], candidates, edge_count),
                      RngAfter(rng, 1 + edge_count), i + 1)

\* rng.choice([n for n in service_names if n != node]) and graph.add_edge(other, node)
RepairStep(g, rng, others, node) ==
    AddEdge(g, others[1 + RngBelow(rng, Len(others))], node)

\* The repair loop over isolated_nodes, from position j on.  rng.choice of an
\* empty list raises ValueError: ok is FALSE and no graph is returned.
RECURSIVE RepairLoop(_, _, _, _, _)
RepairLoop(cfg, g, rng, isolated, j) ==
    IF j > Len(isolated) THEN [ok |-> TRUE, graph |-> g, rng |-> rng]
    ELSE IF Others(cfg, isolated[j]) = <<>>
         THEN [ok |-> FALSE, graph |-> g, rng |-> rng]
         ELSE RepairLoop(cfg, RepairStep(g, rng, Others(cfg, isolated[j]), isolated[j]),
                         RngNext(rng), isolated, j + 1)

\* The repair pass on the graph and stream the candidate loop left.
Repair(cfg, drawn) ==
    RepairLoop(cfg, drawn.graph, drawn.rng, Isolates(drawn.graph), 1)

GenerateDependencyGraph(cfg, rng) ==
    Repair(cfg, CandidateLoop(cfg, AddNodesFrom(EmptyGraph, cfg.service_names), rng, 1))

-----------------------------------------------------------------------------
(* nx.betweenness_centrality(graph, normalized=True, weight=None) *)

\* A dict: the function f held as a table of its values.
Tabulated(f) == CHOOSE t \in {f} : t = f

\* The number of walks of k edges from s to t.
RECURSIVE Walks(_, _, _, _)
Walks(g, s, t, k) ==
    IF k = 0 THEN (IF s = t THEN 1 ELSE 0)
    ELSE SumSeq([i \in DOMAIN g.edges |->
                    IF g.edges[i][1] = s THEN Walks(g, g.edges[i][2], t, k - 1)
                    ELSE 0])

\* The length of a shortest path from s to t (s # t), 0 when there is none:
\* the least k, from k on, with a walk of k edges.
RECURSIVE PathLength(_, _, _, _)
PathLength(g, s, t, k) ==
    IF k >= Len(g.nodes) THEN 0
    ELSE IF Walks(g, s, t, k) > 0 THEN k
    ELSE PathLength(g, s, t, k + 1)

\* The length d and the number of the shortest paths from s to t.
PathInfo(g, s, t, d) ==
    [dist |-> d, sigma |-> IF d = 0 THEN 0 ELSE Walks(g, s, t, d)]

\* Shortest paths between the ordered pairs of distinct nodes.
ShortestPaths(g) ==
    Tabulated([p \in {q \in Range(g.nodes) \X Range(g.nodes) : q[1] # q[2]} |->
                  PathInfo(g, p[1], p[2], PathLength(g, p[1], p[2], 1))])

\* The number of shortest paths from s to t through v.
SigmaThrough(paths, s, t, v) ==
    IF /\ paths[<<s, v>>].dist > 0 /\ paths[<<v, t>>].dist > 0
       /\ paths[<<s, v>>].dist + paths[<<v, t>>].dist = paths[<<s, t>>].dist
    THEN paths[<<s, v>>].sigma * paths[<<v, t>>].sigma ELSE 0

\* Six times the sum over the pairs (s, t) of the share of their shortest paths
\* that pass through v (the shares are halves and thirds at these sizes).
PairDependency6(paths, v) ==
    SumOver({p \in DOMAIN paths : p[1] # v /\ p[2] # v /\ paths[p].dist > 0},
            [p \in DOMAIN paths |->
                (6 * SigmaThrough(paths, p[1], p[2], v)) \div paths[p].sigma])

\* The divisor of the normalisation: (n-1)(n-2) for n > 2, none otherwise.
BetweennessScale(g) ==
    IF Len(g.nodes) > 2 THEN (Len(g.nodes) - 1) * (Len(g.nodes) - 2) ELSE 1

\* betweenness, six-fold and before the division by BetweennessScale.
BetweennessOf(g, paths) == [n \in Range(g.nodes) |-> PairDependency6(paths, n)]
Betweenness6(g) == BetweennessOf(g, ShortestPaths(g))

-----------------------------------------------------------------------------
(* RiskEngine: scoring *)

AUTO_APPROVE == "Auto Approve"
MANUAL_REVIEW == "Manual Review"
BLOCK_DEPLOYMENT == "Block Deployment"

\* _normalise_to_percentage(value); value is held as value * 100, in units.
NormaliseToPercentage(value) ==
    IF value < 0 THEN 0
    ELSE IF value > Pct(100) THEN Pct(100)
    ELSE value

\* Thresholds that take the boundary into the lower class; DecisionThresholds
\* must tell them from the code's.
ClassifyRiskInclusive(score) ==
    IF score <= Pct(40) THEN AUTO_APPROVE
    ELSE IF score <= Pct(70) THEN MANUAL_REVIEW
    ELSE BLOCK_DEPLOYMENT

\* _classify_risk(score)
ClassifyRisk(score) ==
    IF score < Pct(40) THEN AUTO_APPROVE
    ELSE IF score < Pct(70) THEN MANUAL_REVIEW
    ELSE BLOCK_DEPLOYMENT

\* The weights of the dependency score and the rollback rate exchanged;
\* RiskNearPublishedFormula must tell this sum from the code's.
WeightedSum100Exchanged(m) ==
    20 * m.dependency_impact_score
    + 40 * m.rollback_rate
    + 15 * m.change_frequency
    + 15 * m.error_spike_history
    + 10 * m.latency_instability

\* The weighted sum of _build_service_metrics, times 100.
WeightedSum100(m) ==
    40 * m.dependency_impact_score
    + 20 * m.rollback_rate
    + 15 * m.change_frequency
    + 15 * m.error_spike_history
    + 10 * m.latency_instability

\* round(min(max(risk_score, 0), 100), 2) of a weighted sum held times 100.
RoundedRisk(sum100) ==
    Hundredth * RoundHalfEven(Min(Max(sum100, 0), 100 * Pct(100)), 100 * Hundredth)

\* The ServiceMetrics record of _build_service_metrics, its risk score given.
ServiceMetrics(service, metrics, risk_score) ==
    [service_name |-> service,
     dependency_impact_score |-> Round2(metrics.dependency_impact_score),
     rollback_rate |-> Round2(metrics.rollback_rate),
     change_frequency |-> Round2(metrics.change_frequency),
     error_spike_history |-> Round2(metrics.error_spike_history),
     latency_instability |-> Round2(metrics.latency_instability),
     risk_score |-> risk_score,
     decision |-> ClassifyRisk(risk_score)]

\* _build_service_metrics(service, metrics)
BuildServiceMetrics(service, metrics) ==
    ServiceMetrics(service, metrics, RoundedRisk(WeightedSum100(metrics)))

\* The names a record's services list marks blocked.
BlockedIn(record) ==
    {record.services[i].service_name :
        i \in {j \in DOMAIN record.services :
                  record.services[j].decision = BLOCK_DEPLOYMENT}}

\* A collection over every record of the history; BlockedFromLastRecord must
\* tell it from the code's.
CollectBlockedEverywhere(hist) == UNION {BlockedIn(hist[i]) : i \in DOMAIN hist}

\* _collect_blocked_services(history)
CollectBlockedServices(hist) ==
    IF hist = <<>> THEN {} ELSE BlockedIn(hist[Len(hist)])

\* in_degrees = dict(graph.in_degree())
InDegrees(g) == [n \in Range(g.nodes) |-> InDegree(g, n)]

\* max(in_degrees.values()) if in_degrees else 1
MaxInDegree(in_degrees) ==
    IF DOMAIN in_degrees = {} THEN 1
    ELSE CHOOSE d \in Range(in_degrees) : \A e \in Range(in_degrees) : d >= e

\* The dependency score of one node: 0.6 * betweenness + 0.4 * in-degree share.
DependencyScore(g, betweenness6, in_degrees, max_in_degree, service) ==
    NormaliseToPercentage(
        (60 * Unit * betweenness6[service]) \div (6 * BetweennessScale(g))
        + (IF max_in_degree # 0
           THEN (40 * Unit * in_degrees[service]) \div max_in_degree ELSE 0))

\* The dependency scores of the nodes.
DependencyScores(g, betweenness6, in_degrees) ==
    Tabulated([n \in Range(g.nodes) |->
        DependencyScore(g, betweenness6, in_degrees, MaxInDegree(in_degrees), n)])

\* rollback_rate *= 0.85
Dampen(rollback_rate) == (rollback_rate * 85) \div 100

\* A loop that never dampens; RollbackIsDampened must tell it from the code's.
RollbackRateUndamped(service, blocked_lookup, raw) == raw

\* rollback_rate after the draw raw: dampened for a blocked service.
RollbackRate(service, blocked_lookup, raw) ==
    IF service \in blocked_lookup THEN Dampen(raw) ELSE raw

\* The metrics dict of one service: its four draws are taken from the stream
\* in state rng, in the order rollback, change, error, latency.
MetricsDict(dependency_score, rollback_rate, rng) ==
    [dependency_impact_score |-> dependency_score,
     rollback_rate |-> NormaliseToPercentage(rollback_rate),
     change_frequency |-> Round2(Uniform(RngAfter(rng, 1))),
     error_spike_history |-> Round2(Uniform(RngAfter(rng, 2))),
     latency_instability |-> Round2(Uniform(RngAfter(rng, 3)))]

\* What the loop of _generate_service_metrics saw for one service: the draw
\* and the rollback rate after the dampening.
DrawSeen(service, raw, rollback_rate) ==
    [service_name |-> service, raw |-> raw, rollback_rate |-> rollback_rate]

\* sorted(services, key=lambda item: item.service_name): insertion, stable.
RECURSIVE InsertByName(_, _)
InsertByName(sorted, item) ==
    IF sorted = <<>> THEN <<item>>
    ELSE IF NameRank(item.service_name) < NameRank(Head(sorted).service_name)
         THEN <<item>> \o sorted
         ELSE <<Head(sorted)>> \o InsertByName(Tail(sorted), item)

RECURSIVE SortedByName(_)
SortedByName(services) ==
    IF services = <<>> THEN <<>>
    ELSE InsertByName(SortedByName(SubSeq(services, 1, Len(services) - 1)),
                      services[Len(services)])

\* _generate_service_metrics: the loop over graph.nodes() from position i on.
RECURSIVE ServiceLoop(_, _, _, _, _, _, _)
ServiceLoop(g, scores, blocked_lookup, rng, i, services, draws) ==
    IF i > Len(g.nodes)
    THEN [services |-> SortedByName(services), draws |-> draws]
    ELSE ServiceLoop(g, scores, blocked_lookup, RngAfter(rng, 4), i + 1,
            Append(services,
                   BuildServiceMetrics(g.nodes[i],
                       MetricsDict(scores[g.nodes[i]],
                                   RollbackRate(g.nodes[i], blocked_lookup, Uniform(rng)),
                                   rng))),
            Append(draws,
                   DrawSeen(g.nodes[i], Uniform(rng),
                            RollbackRate(g.nodes[i], blocked_lookup, Uniform(rng)))))

GenerateServiceMetrics(g, blocked_services, rng) ==
    ServiceLoop(g, DependencyScores(g, Betweenness6(g), InDegrees(g)),
                blocked_services, rng, 1, <<>>, <<>>)

-----------------------------------------------------------------------------
(* RiskEngine: summary and run *)

\* min in the place of max; SummaryFromServices must tell it from the code's.
Lowest(services) ==
    services[CHOOSE k \in DOMAIN services :
                 \A j \in DOMAIN services :
                     services[k].risk_score <= services[j].risk_score]

\* max(services, key=lambda item: item.risk_score): the first maximum.
Highest(services) ==
    services[CHOOSE k \in DOMAIN services :
                 /\ \A j \in DOMAIN services :
                        services[j].risk_score <= services[k].risk_score
                 /\ \A j \in 1 .. k - 1 :
                        services[j].risk_score < services[k].risk_score]

\* [svc.service_name for svc in services if svc.decision == BLOCK_DEPLOYMENT]
RECURSIVE BlockedNames(_)
BlockedNames(services) ==
    IF services = <<>> THEN <<>>
    ELSE (IF Head(services).decision = BLOCK_DEPLOYMENT
          THEN <<Head(services).service_name>> ELSE <<>>)
         \o BlockedNames(Tail(services))

\* round(float(np.mean(risks)), 2) if risks else 0.0
AverageRisk(risks) ==
    IF risks # <<>>
    THEN Hundredth * RoundHalfEven(SumSeq(risks), Len(risks) * Hundredth)
    ELSE 0

\* The SimulationSummary of _summarise_services, its parts given.
Summary(average_risk, highest, blocked, clock) ==
    [average_risk |-> average_risk,
     highest_risk_service |-> highest.service_name,
     highest_risk_score |-> highest.risk_score,
     blocked_services |-> blocked,
     blocked_count |-> Len(blocked),
     timestamp_utc |-> clock]

\* _summarise_services(services), the clock reading clock.
SummariseServices(services, clock) ==
    Summary(AverageRisk([i \in DOMAIN services |-> services[i].risk_score]),
            Highest(services), BlockedNames(services), clock)

\* GraphEdge(source=u, target=v) for u, v in graph.edges()
EdgeRecords(edges) ==
    [i \in DOMAIN edges |-> [source |-> edges[i][1], target |-> edges[i][2]]]

\* The value of run_simulation, its graph and service metrics given; blocked
\* and draws are what the run used inside.
RunResult(g, metrics, blocked_services, clock) ==
    [ok |-> TRUE,
     result |-> [summary |-> SummariseServices(metrics.services, clock),
                 services |-> metrics.services,
                 edges |-> EdgeRecords(GraphEdges(g))],
     blocked |-> blocked_services,
     draws |-> metrics.draws]

\* run_simulation after graph generation.  ok is FALSE when that raised.
RunOn(generated, blocked_services, clock) ==
    IF ~generated.ok
    THEN [ok |-> FALSE, result |-> None, blocked |-> blocked_services, draws |-> <<>>]
    ELSE RunResult(generated.graph,
                   GenerateServiceMetrics(generated.graph, blocked_services,
                                          generated.rng),
                   blocked_services, clock)

\* A run whose stream is seeded from the clock; SameSeedSameRun must tell it
\* from the code's.
RunSimulationClockSeeded(cfg, hist, rng, clock) ==
    RunOn(GenerateDependencyGraph(cfg, DefaultRng(clock)),
          CollectBlockedServices(hist), clock)

\* run_simulation(history, seed): rng is default_rng(seed), clock the UTC clock.
RunSimulation(cfg, hist, rng, clock) ==
    RunOn(GenerateDependencyGraph(cfg, rng), CollectBlockedServices(hist), clock)

\* build_history_entry(result)
BuildHistoryEntry(result) == [summary |-> result.summary, services |-> result.services]

-----------------------------------------------------------------------------
(* storage.py: SimulationStorage *)

\* A trim that keeps the head of the list; LedgerKeepsLastN must tell it from
\* the code's.
RecordHistoryKeepHead(hist, entry, limit) ==
    IF Len(hist) + 1 > limit THEN SubSeq(Append(hist, entry), 1, limit)
    ELSE Append(hist, entry)

\* self._history after record(entry)
RecordHistory(hist, entry, limit) ==
    IF Len(hist) + 1 > limit THEN LastN(Append(hist, entry), limit)
    ELSE Append(hist, entry)

\* A ledger that keeps the first result it was given; LatestMatchesNewestRecord
\* must tell it from the code's.
RecordLatestOnce(latest, result) == IF latest = None THEN result ELSE latest

\* self._latest_result after record(entry, result=result)
RecordLatest(latest, result) == IF result # None THEN result ELSE latest

\* snapshot(): tuple(self._history)
Snapshot(hist) == hist

\* The list objects of a heap h are h[1], h[2], ...  A caller that is handed
\* the ledger's own list object, not a copy; SnapshotIsIsolated must tell this
\* from the code's.
AliasOf(h, ref) == [heap |-> h, ref |-> ref]

\* tuple(self._history) and list(self._history) on list objects: a new object
\* with the elements of h[ref].
CopyOf(h, ref) == [heap |-> Append(h, h[ref]), ref |-> Len(h) + 1]

\* What a caller holds after snapshot() (kind "snapshot") or a read of the
\* history property (kind "history"): the object and the sequence it held.
Returned(kind, copied, taken) == [kind |-> kind, ref |-> copied.ref, taken |-> taken]

-----------------------------------------------------------------------------
(* The coordinated flow: main.py, and direct calls of the engine *)

Seeds == 0 .. MaxSeed
\* Streams seeded by the operating system when seed is None.
Entropy == {MaxSeed + 1, MaxSeed + 2}
StreamsOf(seed) == IF seed = NoSeed THEN Entropy ELSE {seed}

NoObservation == [kind |-> "none"]
Cleared == [kind |-> "clear"]
IsRun(obs) == obs.kind \in {"run", "execute"}

Observe(kind, seed, snapshot, run) ==
    [kind |-> kind, seed |-> seed, snapshot |-> snapshot, ok |-> run.ok,
     result |-> run.result, blocked |-> run.blocked, draws |-> run.draws]

IdleStorage ==
    /\ settings = Configs[1] /\ history = <<>> /\ latest_result = None /\ now = 0
    /\ obsA = NoObservation /\ obsB = NoObservation /\ recorded = <<>>
IdleGraph ==
    /\ gpc = "idle" /\ graph = EmptyGraph /\ gi = 0 /\ isolated_nodes = <<>>
IdleScore == metrics_in = None /\ built = None
IdleThreads == heap = <<>> /\ hist_ref = 0 /\ tpc = <<>> /\ treg = <<>>

\* Nothing returned yet to a caller.
NoSnap == [kind |-> "none"]
NoResponse == [kind |-> "none"]
IdleCaller == snap = NoSnap /\ response = NoResponse

Init ==
    /\ settings \in Range(Configs)
    /\ history = <<>>
    /\ latest_result = None
    /\ now = 0
    /\ obsA = NoObservation
    /\ obsB = NoObservation
    /\ recorded = <<>>
    /\ IdleGraph /\ IdleScore /\ IdleThreads /\ IdleCaller

\* The end of _execute_simulation: build the entry and record it.  A run
\* that raised records nothing.
RecordRun(seed, history_snapshot, run) ==
    /\ obsA' = obsB
    /\ obsB' = Observe("execute", seed, history_snapshot, run)
    /\ IF run.ok
       THEN /\ history' = RecordHistory(history, BuildHistoryEntry(run.result),
                                        settings.history_limit)
            /\ latest_result' = RecordLatest(latest_result, run.result)
            /\ recorded' = Append(recorded, BuildHistoryEntry(run.result))
       ELSE UNCHANGED <<history, latest_result, recorded>>

\* _execute_simulation(engine, storage, seed): snapshot, run, record.
Execute(seed, stream) ==
    /\ now < MaxClock
    /\ RecordRun(seed, Snapshot(history),
                 RunSimulation(settings, Snapshot(history), DefaultRng(stream), now))
    /\ now' = now + 1
    /\ UNCHANGED settings
    /\ UNCHANGED <<varsGraph, varsScore, varsThreads>>

\* _execute_simulation called with no HTTP response observed.
ExecuteSimulation(seed, stream) ==
    /\ Execute(seed, stream)
    /\ UNCHANGED varsCaller

ObserveRun(seed, history_snapshot, run) ==
    /\ obsA' = obsB
    /\ obsB' = Observe("run", seed, history_snapshot, run)

\* engine.run_simulation(history=hist, seed=seed) called directly, as the tests
\* call it: nothing is recorded.
RunOnly(seed, hist) ==
    /\ now < MaxClock
    /\ ObserveRun(seed, hist, RunSimulation(settings, hist, DefaultRng(seed), now))
    /\ now' = now + 1
    /\ UNCHANGED <<settings, history, latest_result, recorded>>
    /\ UNCHANGED <<varsGraph, varsScore, varsThreads, varsCaller>>

\* storage.clear()
Clear ==
    /\ history' = <<>>
    /\ latest_result' = None
    /\ obsA' = obsB
    /\ obsB' = Cleared
    /\ recorded' = <<>>
    /\ response' = NoResponse
    /\ UNCHANGED <<settings, now, snap>>
    /\ UNCHANGED <<varsGraph, varsScore, varsThreads>>

Simulate ==
    \E seed \in Seeds \cup {NoSeed} : \E stream \in StreamsOf(seed) :
        ExecuteSimulation(seed, stream)
\* The histories handed to the engine are the ledger's snapshot and its tails,
\* the empty one included.
EngineRun ==
    \E seed \in Seeds : \E k \in 0 .. Len(history) :
        RunOnly(seed, SubSeq(Snapshot(history), Len(history) - k + 1, Len(history)))

Next == Simulate \/ EngineRun \/ Clear

Spec == Init /\ [][Next]_vars

-----------------------------------------------------------------------------
(* Properties of the coordinated flow *)

\* The names a services list marks Block Deployment.
BlockedAmong(services) ==
    {services[i].service_name :
        i \in {j \in DOMAIN services : services[j].decision = "Block Deployment"}}

\* The record of the services list with the given name.
Named(services, name) ==
    services[CHOOSE i \in DOMAIN services : services[i].service_name = name]

\* C2: two calls of run_simulation with the same integer seed and the same
\* ledger snapshot give the same service metrics, in the same order, and the
\* same ordered edge list (or both raise).
SameSeedSameRun ==
    (/\ IsRun(obsA) /\ IsRun(obsB)
     /\ obsA.seed = obsB.seed /\ obsA.seed # NoSeed
     /\ obsA.snapshot = obsB.snapshot)
    => /\ obsA.ok = obsB.ok
       /\ obsA.ok => /\ obsA.result.services = obsB.result.services
                     /\ obsA.result.edges = obsB.result.edges

\* Two successful runs on one seed and one non-empty snapshot, read at
\* different instants: the summaries differ (by the timestamp), the services
\* and the edges are there to compare.
SameSeedSameRunWitness ==
    /\ IsRun(obsA) /\ IsRun(obsB)
    /\ obsA.seed = obsB.seed /\ obsA.seed # NoSeed
    /\ obsA.snapshot = obsB.snapshot /\ obsA.snapshot # <<>>
    /\ obsA.ok /\ obsB.ok
    /\ obsA.result.edges # <<>>
    /\ obsA.result.summary # obsB.result.summary

\* C7: when run B is executed by the coordinated flow immediately after run A,
\* each service that run A decided to block has in run B the rollback rate
\* 0.85 times its raw draw (so at most 85), each other service has its raw
\* draw, and the published rollback_rate is that value rounded to 2 decimals.
RollbackIsDampened ==
    (/\ obsA.kind = "execute" /\ obsA.ok
     /\ obsB.kind = "execute" /\ obsB.ok)
    => \A i \in DOMAIN obsB.draws :
          /\ IF obsB.draws[i].service_name \in BlockedAmong(obsA.result.services)
             THEN /\ 100 * obsB.draws[i].rollback_rate = 85 * obsB.draws[i].raw
                  /\ obsB.draws[i].rollback_rate <= Pct(85)
             ELSE obsB.draws[i].rollback_rate = obsB.draws[i].raw
          /\ Named(obsB.result.services, obsB.draws[i].service_name).rollback_rate
                = Round2(obsB.draws[i].rollback_rate)

\* Run B follows run A; one service was blocked in A and is dampened in B to a
\* value other than its draw, another was not blocked and keeps its draw.
RollbackIsDampenedWitness ==
    /\ obsA.kind = "execute" /\ obsA.ok
    /\ obsB.kind = "execute" /\ obsB.ok
    /\ \E i, j \in DOMAIN obsB.draws :
          /\ obsB.draws[i].service_name \in BlockedAmong(obsA.result.services)
          /\ obsB.draws[i].rollback_rate < obsB.draws[i].raw
          /\ obsB.draws[j].service_name \notin BlockedAmong(obsA.result.services)
          /\ obsB.draws[j].rollback_rate = obsB.draws[j].raw

\* C8: the blocked set a run uses is the set of names decided Block Deployment
\* in the last record of its snapshot, the empty set for an empty snapshot;
\* two runs whose snapshots end in the same record use the same blocked set.
BlockedFromLastRecord ==
    /\ IsRun(obsB) =>
          obsB.blocked =
             IF obsB.snapshot = <<>> THEN {}
             ELSE BlockedAmong(obsB.snapshot[Len(obsB.snapshot)].services)
    /\ (/\ IsRun(obsA) /\ IsRun(obsB)
        /\ obsA.snapshot # <<>> /\ obsB.snapshot # <<>>
        /\ obsA.snapshot[Len(obsA.snapshot)] = obsB.snapshot[Len(obsB.snapshot)])
       => obsA.blocked = obsB.blocked

\* Two runs on snapshots that end in one record and differ before it, where
\* the first record of the longer one blocks a service the last does not block.
BlockedFromLastRecordWitness ==
    /\ IsRun(obsA) /\ IsRun(obsB)
    /\ obsA.snapshot # obsB.snapshot /\ obsA.snapshot # <<>>
    /\ Len(obsB.snapshot) >= 2
    /\ obsA.snapshot[Len(obsA.snapshot)] = obsB.snapshot[Len(obsB.snapshot)]
    /\ BlockedAmong(obsB.snapshot[1].services)
          \ BlockedAmong(obsB.snapshot[Len(obsB.snapshot)].services) # {}
    /\ obsB.blocked = BlockedAmong(obsB.snapshot[Len(obsB.snapshot)].services)

\* C9: the summary of a run is derived from the run's own services list:
\* highest_risk_score is the maximum risk score, highest_risk_service the first
\* service in list order that attains it, blocked_services the names decided
\* Block Deployment in list order, blocked_count its length.
SummaryFromServices ==
    (IsRun(obsB) /\ obsB.ok) =>
        LET services == obsB.result.services
            summary == obsB.result.summary
            blocked == {i \in DOMAIN services : services[i].decision = "Block Deployment"}
        IN  /\ \A i \in DOMAIN services : services[i].risk_score <= summary.highest_risk_score
            /\ \E i \in DOMAIN services :
                  /\ services[i].risk_score = summary.highest_risk_score
                  /\ services[i].service_name = summary.highest_risk_service
                  /\ \A j \in 1 .. i - 1 : services[j].risk_score < summary.highest_risk_score
            /\ Len(summary.blocked_services) = Cardinality(blocked)
            /\ \A k \in DOMAIN summary.blocked_services :
                  \E i \in blocked :
                     /\ summary.blocked_services[k] = services[i].service_name
                     /\ Cardinality({j \in blocked : j < i}) = k - 1
            /\ summary.blocked_count = Len(summary.blocked_services)

\* A run with two blocked services and an unblocked one between them in the
\* list: the summary names the two, in list order.
SummaryFromServicesWitness ==
    /\ IsRun(obsB) /\ obsB.ok
    /\ obsB.result.summary.blocked_count = 2
    /\ \E i, j, k \in DOMAIN obsB.result.services :
          /\ i < j /\ j < k
          /\ obsB.result.services[i].decision = "Block Deployment"
          /\ obsB.result.services[j].decision # "Block Deployment"
          /\ obsB.result.services[k].decision = "Block Deployment"
          /\ obsB.result.summary.blocked_services =
                <<obsB.result.services[i].service_name,
                  obsB.result.services[k].service_name>>

-----------------------------------------------------------------------------
(* The ledger alone: record() and clear() on entries that stand for records *)

\* The entries handed to record(): a serial number since the last clear and
\* one of MaxEntry contents.
LedgerEntry(payload) == [serial |-> Len(recorded) + 1, payload |-> payload]

InitLedger ==
    /\ settings \in {[Configs[1] EXCEPT !.history_limit = n] : n \in 1 .. MaxHistoryLimit}
    /\ history = <<>>
    /\ latest_result = None
    /\ now = 0
    /\ obsA = NoObservation
    /\ obsB = NoObservation
    /\ recorded = <<>>
    /\ IdleGraph /\ IdleScore /\ IdleThreads /\ IdleCaller

\* storage.record(entry, result=result)
Record(entry, result) ==
    /\ Len(recorded) < MaxRecords
    /\ history' = RecordHistory(history, entry, settings.history_limit)
    /\ latest_result' = RecordLatest(latest_result, result)
    /\ recorded' = Append(recorded, entry)
    /\ UNCHANGED <<settings, now, obsA, obsB>>
    /\ UNCHANGED <<varsGraph, varsScore, varsThreads, varsCaller>>

RecordEntry ==
    \E payload \in 1 .. MaxEntry :
        \E result \in {None, [summary |-> LedgerEntry(payload)]} :
            Record(LedgerEntry(payload), result)

NextLedger == RecordEntry \/ Clear

SpecLedger == InitLedger /\ [][NextLedger]_vars

\* C1: after k record() calls since creation or the last clear(), a ledger of
\* capacity N holds exactly the last min(k, N) recorded entries in insertion
\* order; its length never exceeds N and is N once k > N.
LedgerKeepsLastN ==
    /\ Len(history) = Min(Len(recorded), settings.history_limit)
    /\ \A i \in 1 .. Len(history) :
          history[i] = recorded[Len(recorded) - Len(history) + i]
    /\ Len(history) <= settings.history_limit
    /\ Len(recorded) > settings.history_limit
          => Len(history) = settings.history_limit

\* A ledger of capacity two or more that has evicted twice: the two oldest
\* entries are gone, the newest is last.
LedgerKeepsLastNWitness ==
    /\ settings.history_limit >= 2
    /\ Len(recorded) = settings.history_limit + 2
    /\ Len(history) = settings.history_limit
    /\ history[1] = recorded[3]
    /\ history[Len(history)] = recorded[Len(recorded)]
    /\ recorded[1] \notin Range(history)

-----------------------------------------------------------------------------
(* _build_service_metrics as a function of its metrics dict *)

\* A value given in thousandths of a point, in units.
Thousandths(k) == k * (Unit \div 1000)

\* The metrics dicts handed to _build_service_metrics: a dependency score in
\* [0, 100] (thirds occur), a rollback rate as drawn or dampened, and three
\* draws already rounded to 2 decimals.
ScoreInputs ==
    [dependency_impact_score : {0, Pct(40) \div 3, Pct(50), Pct(100)},
     rollback_rate : {0, Thousandths(14), Thousandths(24995), Thousandths(99985)},
     change_frequency : {0, Thousandths(10), Thousandths(58340)},
     error_spike_history : {0, Thousandths(66600), Thousandths(66670)},
     latency_instability : {0, Thousandths(10), Pct(100)}]

InitScore ==
    /\ metrics_in \in ScoreInputs
    /\ built = None
    /\ IdleStorage /\ IdleGraph /\ IdleThreads /\ IdleCaller

\* final_metrics = self._build_service_metrics(service, metrics)
BuildMetrics ==
    /\ built = None
    /\ built' = BuildServiceMetrics("auth-service", metrics_in)
    /\ UNCHANGED <<metrics_in, varsStorage, varsGraph, varsThreads, varsCaller>>

NextScore == BuildMetrics

SpecScore == InitScore /\ [][NextScore]_vars

\* round(clamp(0.4*dep + 0.2*rb + 0.15*cf + 0.15*es + 0.1*li, 0, 100), 2) of the
\* five signals a ServiceMetrics record publishes.
PublishedFormula(m) ==
    Hundredth * RoundHalfEven(
        Min(Max(40 * m.dependency_impact_score + 20 * m.rollback_rate
                + 15 * m.change_frequency + 15 * m.error_spike_history
                + 10 * m.latency_instability, 0), 100 * Pct(100)),
        100 * Hundredth)

\* C3, as stated: risk_score equals the formula on the five published
\* signals, exactly.
RiskEqualsPublishedFormula ==
    built # None => built.risk_score = PublishedFormula(built)

\* C3, as the code has it: risk_score is the formula on the signals before the
\* dependency score and the rollback rate are rounded for publication, so it
\* is within 0.01 of the formula on the published signals.
RiskNearPublishedFormula ==
    built # None =>
        /\ built.risk_score - PublishedFormula(built) <= Hundredth
        /\ PublishedFormula(built) - built.risk_score <= Hundredth
        /\ built.risk_score = PublishedFormula(
              [metrics_in EXCEPT
                  !.change_frequency = built.change_frequency,
                  !.error_spike_history = built.error_spike_history,
                  !.latency_instability = built.latency_instability])

\* A record whose risk score is 0.01 away from the formula on what it publishes.
RiskNearPublishedFormulaWitness ==
    /\ built # None
    /\ built.rollback_rate # metrics_in.rollback_rate
    /\ built.risk_score # PublishedFormula(built)

\* C4: the decision is Auto Approve iff risk_score < 40, Manual Review iff
\* 40 <= risk_score < 70, Block Deployment iff risk_score >= 70; so 39.99 is
\* approved, 40.00 and 69.99 are reviewed, 70.00 is blocked.
DecisionThresholds ==
    built # None =>
        /\ built.decision = "Auto Approve" <=> built.risk_score < Pct(40)
        /\ built.decision = "Manual Review" <=>
              (Pct(40) <= built.risk_score /\ built.risk_score < Pct(70))
        /\ built.decision = "Block Deployment" <=> built.risk_score >= Pct(70)
        /\ built.risk_score = Pct(40) - Hundredth => built.decision = "Auto Approve"
        /\ built.risk_score = Pct(40) => built.decision = "Manual Review"
        /\ built.risk_score = Pct(70) - Hundredth => built.decision = "Manual Review"
        /\ built.risk_score = Pct(70) => built.decision = "Block Deployment"

\* A record scored exactly 70.00, blocked.
DecisionThresholdsWitness ==
    /\ built # None
    /\ built.risk_score = Pct(70)
    /\ built.decision = "Block Deployment"

\* The other three boundary scores are built as well.
ScoredJustBelow40 == built # None /\ built.risk_score = Pct(40) - Hundredth
ScoredExactly40 == built # None /\ built.risk_score = Pct(40)
ScoredJustBelow70 == built # None /\ built.risk_score = Pct(70) - Hundredth

-----------------------------------------------------------------------------
(* _generate_dependency_graph step by step, every draw free *)

InitGraph ==
    /\ settings \in Range(Configs)
    /\ gpc = "candidates"
    /\ graph = AddNodesFrom(EmptyGraph, settings.service_names)
    /\ gi = 1
    /\ isolated_nodes = <<>>
    /\ history = <<>> /\ latest_result = None /\ now = 0
    /\ obsA = NoObservation /\ obsB = NoObservation /\ recorded = <<>>
    /\ IdleScore /\ IdleThreads /\ IdleCaller

\* if not candidates: continue
SkipService ==
    /\ gpc = "candidates" /\ gi <= Len(settings.service_names)
    /\ Candidates(settings, settings.service_names[gi]) = <<>>
    /\ gi' = gi + 1
    /\ UNCHANGED <<gpc, graph, isolated_nodes>>
    /\ UNCHANGED <<varsStorage, varsScore, varsThreads, varsCaller>>

\* edge_count and chosen are drawn, the chosen edges are added.
DrawEdges ==
    /\ gpc = "candidates" /\ gi <= Len(settings.service_names)
    /\ Candidates(settings, settings.service_names[gi]) # <<>>
    /\ \E edge_count \in
            0 .. MaxEdges(Candidates(settings, settings.service_names[gi])) :
         \E chosen \in
               OrderedSamples(Candidates(settings, settings.service_names[gi]),
                              edge_count) :
            graph' = AddChosen(graph, settings.service_names[gi], chosen)
    /\ gi' = gi + 1
    /\ UNCHANGED <<gpc, isolated_nodes>>
    /\ UNCHANGED <<varsStorage, varsScore, varsThreads, varsCaller>>

\* isolated_nodes = list(nx.isolates(graph))
ListIsolated ==
    /\ gpc = "candidates" /\ gi > Len(settings.service_names)
    /\ isolated_nodes' = Isolates(graph)
    /\ gpc' = "repair"
    /\ gi' = 1
    /\ UNCHANGED graph
    /\ UNCHANGED <<varsStorage, varsScore, varsThreads, varsCaller>>

\* other = rng.choice([...]); graph.add_edge(other, node)
RepairNode ==
    /\ gpc = "repair" /\ gi <= Len(isolated_nodes)
    /\ \E k \in DOMAIN Others(settings, isolated_nodes[gi]) :
          graph' = AddEdge(graph, Others(settings, isolated_nodes[gi])[k],
                           isolated_nodes[gi])
    /\ gi' = gi + 1
    /\ UNCHANGED <<gpc, isolated_nodes>>
    /\ UNCHANGED <<varsStorage, varsScore, varsThreads, varsCaller>>

\* rng.choice of an empty list raises ValueError.
RepairRaises ==
    /\ gpc = "repair" /\ gi <= Len(isolated_nodes)
    /\ Others(settings, isolated_nodes[gi]) = <<>>
    /\ gpc' = "raised"
    /\ UNCHANGED <<graph, gi, isolated_nodes>>
    /\ UNCHANGED <<varsStorage, varsScore, varsThreads, varsCaller>>

\* return graph
ReturnGraph ==
    /\ gpc = "repair" /\ gi > Len(isolated_nodes)
    /\ gpc' = "done"
    /\ UNCHANGED <<graph, gi, isolated_nodes>>
    /\ UNCHANGED <<varsStorage, varsScore, varsThreads, varsCaller>>

NextGraph ==
    SkipService \/ DrawEdges \/ ListIsolated \/ RepairNode \/ RepairRaises \/ ReturnGraph

SpecGraph == InitGraph /\ [][NextGraph]_vars

\* C5: whatever the edge counts, the candidates chosen and the repair choices,
\* the graph returned has no isolated node (in-degree + out-degree >= 1 for
\* every node), so it has at least one edge.
NoIsolatedNode ==
    gpc = "done" =>
        /\ \A n \in Range(graph.nodes) :
              \E e \in Range(graph.edges) : e[1] = n \/ e[2] = n
        /\ graph.edges # <<>>

\* A returned graph in which the repair pass found two isolated nodes or more.
NoIsolatedNodeWitness ==
    /\ gpc = "done"
    /\ Len(isolated_nodes) >= 2
    /\ Len(graph.edges) >= 2

\* C6: the source and the target of every edge of the returned graph are
\* configured services, whatever the candidate table.
EdgesAmongServices ==
    gpc = "done" =>
        \A e \in Range(graph.edges) :
            /\ e[1] \in Range(settings.service_names)
            /\ e[2] \in Range(settings.service_names)

\* What does hold: every endpoint is a node of the graph, which is what the
\* services list of the result is built from.
EdgesAmongNodes ==
    \A e \in Range(graph.edges) :
        e[1] \in Range(graph.nodes) /\ e[2] \in Range(graph.nodes)

-----------------------------------------------------------------------------
(* record() run by two request threads on one ledger *)

Threads == {1, 2}

\* The entry and the result a thread records.
ThreadEntry(t) == [thread |-> t]
ThreadResult(t) == [summary |-> ThreadEntry(t)]

\* An entry recorded before the two requests.
Earlier(i) == [earlier |-> i]

\* The list objects are heap[1], heap[2], ...; hist_ref is the one that
\* self._history refers to.  treg[t] is the list object thread t has loaded
\* or built.
InitConcurrent ==
    /\ settings \in {[Configs[1] EXCEPT !.history_limit = n] : n \in 2 .. MaxHistoryLimit}
    /\ \E n0 \in 0 .. settings.history_limit : heap = <<[i \in 1 .. n0 |-> Earlier(i)]>>
    /\ hist_ref = 1
    /\ tpc = [t \in Threads |-> "load"]
    /\ treg = [t \in Threads |-> 0]
    /\ history = <<>> /\ latest_result = None /\ now = 0
    /\ obsA = NoObservation /\ obsB = NoObservation /\ recorded = <<>>
    /\ IdleGraph /\ IdleScore /\ IdleCaller

\* self._history (the attribute is read) ...
LoadHistory(t) ==
    /\ tpc[t] = "load"
    /\ treg' = [treg EXCEPT ![t] = hist_ref]
    /\ tpc' = [tpc EXCEPT ![t] = "append"]
    /\ UNCHANGED <<heap, hist_ref>>
    /\ UNCHANGED <<varsStorage, varsGraph, varsScore, varsCaller>>

\* ... .append(entry)
AppendEntry(t) ==
    /\ tpc[t] = "append"
    /\ heap' = [heap EXCEPT ![treg[t]] = Append(@, ThreadEntry(t))]
    /\ tpc' = [tpc EXCEPT ![t] = "test"]
    /\ UNCHANGED <<hist_ref, treg>>
    /\ UNCHANGED <<varsStorage, varsGraph, varsScore, varsCaller>>

\* if len(self._history) > self._settings.history_limit:
TestLength(t) ==
    /\ tpc[t] = "test"
    /\ tpc' = [tpc EXCEPT ![t] =
                  IF Len(heap[hist_ref]) > settings.history_limit
                  THEN "slice" ELSE "latest"]
    /\ UNCHANGED <<heap, hist_ref, treg>>
    /\ UNCHANGED <<varsStorage, varsGraph, varsScore, varsCaller>>

\* self._history[-limit:], a new list
SliceHistory(t) ==
    /\ tpc[t] = "slice"
    /\ heap' = Append(heap, LastN(heap[hist_ref], settings.history_limit))
    /\ treg' = [treg EXCEPT ![t] = Len(heap) + 1]
    /\ tpc' = [tpc EXCEPT ![t] = "store"]
    /\ UNCHANGED hist_ref
    /\ UNCHANGED <<varsStorage, varsGraph, varsScore, varsCaller>>

\* self._history = (the new list)
StoreHistory(t) ==
    /\ tpc[t] = "store"
    /\ hist_ref' = treg[t]
    /\ tpc' = [tpc EXCEPT ![t] = "latest"]
    /\ UNCHANGED <<heap, treg>>
    /\ UNCHANGED <<varsStorage, varsGraph, varsScore, varsCaller>>

\* if result is not None: self._latest_result = result
StoreLatest(t) ==
    /\ tpc[t] = "latest"
    /\ latest_result' = RecordLatest(latest_result, ThreadResult(t))
    /\ tpc' = [tpc EXCEPT ![t] = "done"]
    /\ UNCHANGED <<heap, hist_ref, treg>>
    /\ UNCHANGED <<settings, history, now, obsA, obsB, recorded>>
    /\ UNCHANGED <<varsGraph, varsScore, varsCaller>>

\* storage.snapshot() on a third thread, once, at any point of the two calls.
ReaderSnapshot ==
    /\ snap = NoSnap
    /\ heap' = CopyOf(heap, hist_ref).heap
    /\ snap' = Returned("snapshot", CopyOf(heap, hist_ref), heap[hist_ref])
    /\ UNCHANGED <<hist_ref, tpc, treg, response>>
    /\ UNCHANGED <<varsStorage, varsGraph, varsScore>>

NextConcurrent ==
    \/ \E t \in Threads :
          \/ LoadHistory(t) \/ AppendEntry(t) \/ TestLength(t)
          \/ SliceHistory(t) \/ StoreHistory(t) \/ StoreLatest(t)
    \/ ReaderSnapshot

SpecConcurrent == InitConcurrent /\ [][NextConcurrent]_vars

\* C10: when both record() calls have returned, both entries are in the
\* ledger, whatever the interleaving of the append and trim steps.
BothEntriesKept ==
    (\A t \in Threads : tpc[t] = "done") =>
        \A t \in Threads : ThreadEntry(t) \in Range(heap[hist_ref])

\* C11: a snapshot() taken while record() calls run on other threads never
\* returns a ledger with an entry appended and not yet trimmed: it is never
\* longer than the capacity.
SnapshotWithinCapacity ==
    snap.kind = "snapshot" => Len(snap.taken) <= settings.history_limit

-----------------------------------------------------------------------------
(* The ledger and the values it returns, as list and tuple objects *)

\* The ledger is the list object heap[hist_ref]; history is the sequence the
\* calls made so far should have left in it, recorded the entries since the
\* last clear().
InitObjects ==
    /\ settings \in {[Configs[1] EXCEPT !.history_limit = n] : n \in 1 .. MaxHistoryLimit}
    /\ heap = <<<<>>>>
    /\ hist_ref = 1
    /\ tpc = <<>> /\ treg = <<>>
    /\ history = <<>> /\ latest_result = None /\ now = 0
    /\ obsA = NoObservation /\ obsB = NoObservation /\ recorded = <<>>
    /\ IdleGraph /\ IdleScore /\ IdleCaller

\* The heap after record(entry): the append is in place, the trim binds
\* self._history to a new list.
RecordOnHeap(h, ref, entry, limit) ==
    IF Len(h[ref]) + 1 > limit
    THEN [heap |-> Append([h EXCEPT ![ref] = Append(@, entry)],
                          LastN(Append(h[ref], entry), limit)),
          ref |-> Len(h) + 1]
    ELSE [heap |-> [h EXCEPT ![ref] = Append(@, entry)], ref |-> ref]

\* storage.record(entry, result=result) on the list object
RecordObject ==
    /\ Len(recorded) < MaxRecords
    /\ Len(heap) < MaxObjects
    /\ heap' = RecordOnHeap(heap, hist_ref, LedgerEntry(1), settings.history_limit).heap
    /\ hist_ref' = RecordOnHeap(heap, hist_ref, LedgerEntry(1), settings.history_limit).ref
    /\ history' = RecordHistory(history, LedgerEntry(1), settings.history_limit)
    /\ latest_result' = RecordLatest(latest_result, [summary |-> LedgerEntry(1)])
    /\ recorded' = Append(recorded, LedgerEntry(1))
    /\ UNCHANGED <<settings, now, obsA, obsB, tpc, treg>>
    /\ UNCHANGED <<varsGraph, varsScore, varsCaller>>

\* storage.clear(): self._history.clear() empties the list in place.
ClearObject ==
    /\ heap' = [heap EXCEPT ![hist_ref] = <<>>]
    /\ history' = <<>>
    /\ latest_result' = None
    /\ recorded' = <<>>
    /\ UNCHANGED <<settings, now, obsA, obsB, hist_ref, tpc, treg>>
    /\ UNCHANGED <<varsGraph, varsScore, varsCaller>>

\* storage.snapshot() (a tuple) or storage.history (a list)
ReturnCopy(kind) ==
    /\ Len(heap) < MaxObjects
    /\ heap' = CopyOf(heap, hist_ref).heap
    /\ snap' = Returned(kind, CopyOf(heap, hist_ref), heap[hist_ref])
    /\ UNCHANGED <<hist_ref, tpc, treg, response>>
    /\ UNCHANGED <<varsStorage, varsGraph, varsScore>>

TakeSnapshot == ReturnCopy("snapshot")
ReadHistory == ReturnCopy("history")

\* The caller changes the list it was handed: it appends an item of its own,
\* or empties the list.
ChangeReturned ==
    /\ snap.kind = "history"
    /\ \E changed \in {<<>>} \cup
                      (IF Len(snap.taken) <= settings.history_limit
                       THEN {Append(snap.taken, [foreign |-> TRUE])} ELSE {}) :
          /\ heap' = [heap EXCEPT ![snap.ref] = changed]
          /\ snap' = [snap EXCEPT !.taken = changed]
    /\ UNCHANGED <<hist_ref, tpc, treg, response>>
    /\ UNCHANGED <<varsStorage, varsGraph, varsScore>>

NextObjects ==
    RecordObject \/ ClearObject \/ TakeSnapshot \/ ReadHistory \/ ChangeReturned

SpecObjects == InitObjects /\ [][NextObjects]_vars

\* C12: a value returned by snapshot() or by the history property is left as
\* it was by every later record() and clear(); a change the caller makes to
\* it leaves the ledger's history as the calls made it; and taking it leaves
\* the history and the latest result as they were.
SnapshotIsIsolated ==
    /\ snap # NoSnap => heap[snap.ref] = snap.taken
    /\ heap[hist_ref] = history
    /\ latest_result =
          IF recorded = <<>> THEN None ELSE [summary |-> recorded[Len(recorded)]]

\* A snapshot that still holds entries after the ledger was cleared and two
\* entries were recorded again.
SnapshotIsIsolatedWitness ==
    /\ snap.kind = "snapshot"
    /\ Len(snap.taken) >= 1
    /\ Len(recorded) >= 2
    /\ Len(recorded) < snap.taken[Len(snap.taken)].serial
    /\ history # snap.taken

\* A list read from the history property and changed by the caller, the
\* ledger holding what was recorded.
ChangedByCaller ==
    /\ snap.kind = "history"
    /\ [foreign |-> TRUE] \in Range(snap.taken)
    /\ history # <<>>

-----------------------------------------------------------------------------
(* main.py: the HTTP handlers and what they answer *)

\* An HTTP answer: 200 with a body, or an error status with a detail.
Answer(kind, request, body) ==
    [kind |-> kind, request |-> request, status |-> 200, detail |-> "", body |-> body]
Failure(kind, request, status, detail) ==
    [kind |-> kind, request |-> request, status |-> status, detail |-> detail,
     body |-> None]

\* SummaryResponse(average_risk=..., highest_risk_service=..., ...)
SummaryResponse(summary) ==
    [average_risk |-> summary.average_risk,
     highest_risk_service |-> summary.highest_risk_service,
     highest_risk_score |-> summary.highest_risk_score,
     blocked_count |-> summary.blocked_count]

\* A summary of zeros answered with 200 where there is no result;
\* NoDataExactlyWhenNothingRecorded must tell it from the code's.
SummaryAnswerZero(latest) ==
    IF latest = None
    THEN Answer("summary", None,
                [average_risk |-> 0, highest_risk_service |-> "",
                 highest_risk_score |-> 0, blocked_count |-> 0])
    ELSE Answer("summary", None, SummaryResponse(latest.summary))

\* get_summary, latest being storage.latest_result
SummaryAnswer(latest) ==
    IF latest = None
    THEN Failure("summary", None, 404, "Simulation not run yet.")
    ELSE Answer("summary", None, SummaryResponse(latest.summary))

\* get_services, latest being storage.latest_result
ServicesAnswer(latest) ==
    IF latest = None
    THEN Failure("services", None, 404, "No simulation results available yet.")
    ELSE Answer("services", None, latest)

\* The names metric.service_name that the loop of _find_service_metric meets.
NamesIn(result) == {result.services[i].service_name : i \in DOMAIN result.services}

\* _find_service_metric(result, service_name): the first record of that name,
\* else the highest-risk record.
FindServiceMetric(result, service_name) ==
    IF \E i \in DOMAIN result.services : result.services[i].service_name = service_name
    THEN result.services[CHOOSE i \in DOMAIN result.services :
             /\ result.services[i].service_name = service_name
             /\ \A j \in 1 .. i - 1 : result.services[j].service_name # service_name]
    ELSE Highest(result.services)

\* CICDHookResponse(message, risk_score, decision); the message is its two
\* formatted parts: the score to no decimals (f"{risk_score:.0f}") and the
\* decision.
CICDHookResponse(service_metric) ==
    [message |-> [score |-> RoundHalfEven(service_metric.risk_score, Unit),
                  decision |-> service_metric.decision],
     risk_score |-> service_metric.risk_score,
     decision |-> service_metric.decision]

\* The answer to a handler that ran _execute_simulation; a run that raised
\* is answered with 500.
RunAnswer(kind, request, obs, body) ==
    IF obs.ok THEN Answer(kind, request, body)
    ELSE Failure(kind, request, 500, "Internal Server Error")

InitApi == Init

\* POST /simulate
PostSimulate ==
    /\ now < MaxRequests
    /\ \E seed \in Seeds \cup {NoSeed} : \E stream \in StreamsOf(seed) :
          Execute(seed, stream)
    /\ response' = RunAnswer("simulate", None, obsB', obsB'.result)
    /\ UNCHANGED snap

\* The service names a pipeline posts: the configured ones and one that is
\* configured nowhere.
HookNames(cfg) == Range(cfg.service_names) \cup {"unknown-service"}

\* POST /cicd-hook with payload.service_name = service_name
CicdHook(service_name) ==
    /\ now < MaxRequests
    /\ \E stream \in Entropy : Execute(NoSeed, stream)
    /\ response' =
          RunAnswer("hook", [service_name |-> service_name], obsB',
                    IF obsB'.ok
                    THEN CICDHookResponse(FindServiceMetric(obsB'.result, service_name))
                    ELSE None)
    /\ UNCHANGED snap

\* GET /services
GetServices ==
    /\ response' = ServicesAnswer(latest_result)
    /\ UNCHANGED snap
    /\ UNCHANGED <<varsStorage, varsGraph, varsScore, varsThreads>>

\* GET /summary
GetSummary ==
    /\ response' = SummaryAnswer(latest_result)
    /\ UNCHANGED snap
    /\ UNCHANGED <<varsStorage, varsGraph, varsScore, varsThreads>>

PostCicdHook == \E service_name \in HookNames(settings) : CicdHook(service_name)

NextApi ==
    \/ PostSimulate
    \/ PostCicdHook
    \/ GetServices
    \/ GetSummary
    \/ Clear

SpecApi == InitApi /\ [][NextApi]_vars

\* C13: GET /services and GET /summary answer with the explicit no-data
\* error, and no body, exactly when nothing has been recorded since the
\* ledger was created or last cleared; otherwise they answer with the result
\* of the last recorded run, the summary query with that result's summary.
NoDataExactlyWhenNothingRecorded ==
    response.kind \in {"services", "summary"} =>
        /\ response.status = 404 <=> recorded = <<>>
        /\ response.status \in {200, 404}
        /\ response.status = 404 => response.body = None /\ response.detail # ""
        /\ response.status = 200 =>
              /\ obsB.kind = "execute" /\ obsB.ok
              /\ response.kind = "services" => response.body = obsB.result
              /\ response.kind = "summary" =>
                     response.body = SummaryResponse(obsB.result.summary)

\* The summary asked for right after clear(), a run having been recorded
\* before the clear.
NoDataAfterClear ==
    /\ response.kind = "summary"
    /\ response.status = 404
    /\ obsB = Cleared
    /\ IsRun(obsA) /\ obsA.ok

\* The summary asked for after a second recorded run.
SummaryOfSecondRun ==
    /\ response.kind = "summary"
    /\ response.status = 200
    /\ Len(recorded) = 2
    /\ recorded[1].summary # recorded[2].summary

\* C14: a hook naming a service that the run has no record of is answered
\* with 200 and the score and decision of the run's highest-risk service, and
\* its answer differs from the answer to a hook naming that highest-risk
\* service itself, so that the caller can tell the two apart.
HookSurfacesSubstitution ==
    (/\ response.kind = "hook"
     /\ obsB.kind = "execute" /\ obsB.ok
     /\ response.request.service_name \notin NamesIn(obsB.result)) =>
        /\ response.status = 200
        /\ response.body.risk_score = Highest(obsB.result.services).risk_score
        /\ response.body.decision = Highest(obsB.result.services).decision
        /\ response.body #
              CICDHookResponse(FindServiceMetric(obsB.result,
                                   Highest(obsB.result.services).service_name))

\* The part of C14 the code keeps: no failure, and the highest-risk
\* service's score and decision.
HookFallsBackToHighest ==
    (/\ response.kind = "hook"
     /\ obsB.kind = "execute" /\ obsB.ok
     /\ response.request.service_name \notin NamesIn(obsB.result)) =>
        /\ response.status = 200
        /\ response.body.risk_score = Highest(obsB.result.services).risk_score
        /\ response.body.decision = Highest(obsB.result.services).decision

-----------------------------------------------------------------------------
(* Properties of every run's result *)

Signals(m) ==
    {m.dependency_impact_score, m.rollback_rate, m.change_frequency,
     m.error_spike_history, m.latency_instability}

\* C15: in the result of every run, each of the five signals and the risk
\* score of every service lies in [0, 100], whether or not the rollback rate
\* was dampened.
SignalsWithinRange ==
    (IsRun(obsB) /\ obsB.ok) =>
        \A i \in DOMAIN obsB.result.services :
            \A x \in Signals(obsB.result.services[i])
                     \cup {obsB.result.services[i].risk_score} :
                0 <= x /\ x <= Pct(100)

\* A run with a dampened service, a signal of 0 and a signal above 99.9.
SignalsWithinRangeWitness ==
    /\ IsRun(obsB) /\ obsB.ok
    /\ \E i \in DOMAIN obsB.result.services :
          obsB.result.services[i].service_name \in obsB.blocked
    /\ \E i \in DOMAIN obsB.result.services : 0 \in Signals(obsB.result.services[i])
    /\ \E i \in DOMAIN obsB.result.services :
          \E x \in Signals(obsB.result.services[i]) : x > Pct(100) - Unit \div 10

\* C16: the result of every run holds exactly one record per configured
\* service and no record of any other name, in ascending order of name.
OneRecordPerConfiguredService ==
    (IsRun(obsB) /\ obsB.ok) =>
        /\ Len(obsB.result.services) = Len(settings.service_names)
        /\ NamesIn(obsB.result) = Range(settings.service_names)
        /\ \A i \in 1 .. Len(obsB.result.services) - 1 :
              NameRank(obsB.result.services[i].service_name)
                  < NameRank(obsB.result.services[i + 1].service_name)

\* The part of C16 the code keeps: the records are in strictly ascending
\* order of name, and every configured service has one.
RecordsSortedByName ==
    (IsRun(obsB) /\ obsB.ok) =>
        /\ Range(settings.service_names) \subseteq NamesIn(obsB.result)
        /\ \A i \in 1 .. Len(obsB.result.services) - 1 :
              NameRank(obsB.result.services[i].service_name)
                  < NameRank(obsB.result.services[i + 1].service_name)

\* C17: graph generation completes for every non-empty configured service
\* set, the set of one service included: the repair pass never raises.
GenerationCompletes == gpc # "raised"

\* C18: through run requests and clear() calls made one after another, the
\* latest result is absent exactly when the history is empty, and otherwise
\* the newest history record has the summary and the services of the latest
\* result.
LatestMatchesNewestRecord ==
    /\ latest_result = None <=> history = <<>>
    /\ history # <<>> =>
          /\ history[Len(history)].summary = latest_result.summary
          /\ history[Len(history)].services = latest_result.services

\* A full ledger that has dropped a record, a clear() lying before its runs.
LatestMatchesNewestRecordWitness ==
    /\ Len(recorded) > Len(history)
    /\ Len(history) >= 1
    /\ latest_result # None
    /\ recorded[1].summary.timestamp_utc > 0
    /\ latest_result.summary # recorded[1].summary

=============================================================================
